---- MODULE Spec2Model ----
(***************************************************************************)
(* Deployment-time composition of the Common Fate development stack        *)
(* (CommonFateStackDev -> AppBackend -> Notifiers, CacheSync) and the      *)
(* runtime behaviour of the resources it declares: the RestApi's methods,  *)
(* the event rules and their targets.                                      *)
(***************************************************************************)
EXTENDS Naturals, Sequences, FiniteSets

VARIABLES
    stackProps,   \* Props of CommonFateStackDev
    vpcConfig,    \* the VpcConfig the stack resolves from its Props
    handed,       \* component -> the Props object it was constructed with
    sourceName,   \* what events.getEventBusSourceName() returns
    props,        \* Props handed to AppBackend (set when it is constructed)
    pc,           \* position in the constructors
    declared,     \* construct ids declared so far
    env,          \* unit -> environment mapping (set of <<name, value>>)
    policy,       \* unit -> sequence of PolicyStatements of its role
    resources,    \* resource paths of the RestApi
    methods,      \* methods declared on the resources
    conditions,   \* CfnConditions declared by AppBackend (sequence of ids)
    associations, \* CfnWebACLAssociations declared (sequence)
    rules,        \* event rules: name -> record
    lambdaPerms,  \* <<rule, unit>>: the rule may invoke the unit
    error,        \* composition error
    delivery,     \* delivery of the last occurrence, when it is a matched event
    last          \* the last runtime occurrence and its outcome

compVars == <<stackProps, vpcConfig, handed, sourceName, props, pc, declared, env, policy, resources,
              methods, conditions, associations, rules, lambdaPerms, error>>
vars == <<stackProps, vpcConfig, handed, sourceName, props, pc, declared, env,
          policy, resources, methods, conditions, associations, rules,
          lambdaPerms, error, delivery, last>>

----------------------------------------------------------------------------
(* Values the configuration is drawn from *)

AutoApprovalARNs == {"", "arn:aws:lambda:auto-approval"}
WafAclArns == {"", "arn:aws:wafv2:acl"}
GroupFilters == {"engineering", "platform"}
SourceNames == {"commonfate.io/events", "aws.partner/other"}
DetailTypes == {"request.created", "grant.failed"}

\* references resolved from collaborators that are passed in
TableName == "table-name"
TableArn == "arn:aws:dynamodb:table"
UserPoolArn == "arn:aws:cognito-idp:userpool"
UserPoolId == "userpool-id"
EventBusArn == "arn:aws:events:bus"
\* db.getTable(): the one dynamodb.Table of the Database construct
getTable == [tableName |-> TableName, tableArn |-> TableArn]
\* events.getEventBus(): the one events.EventBus of the EventBus construct
getEventBus == [eventBusArn |-> EventBusArn]
AccessHandlerUrl == "https://access-handler"
\* arnForExecuteApi() with no arguments: any stage, any method, any path of
\* the access handler's API
AccessHandlerExecuteApiArn ==
    <<"arn:aws:execute-api:access-handler-api", "*", "*", "*">>
FrontendUrl == "https://frontend"
RestApiId == "restapi-id"

Units == {"WebhookHandlerFunction", "RestAPIHandlerFunction",
          "SlackNotifierFunction", "CacheSyncHandlerFunction"}

NoProps == [set |-> FALSE]
NoError == [kind |-> "none", path |-> <<>>, by |-> "none"]
RuleNames == {"SlackNotifierEventBridgeRule", "EventBridgeCronRule"}
AnyValue == {"<any>"}
NoPattern == [source |-> AnyValue, detailType |-> AnyValue]
NoRule == [exists |-> FALSE, eventBus |-> "none", schedule |-> "none",
           eventPattern |-> NoPattern, enabled |-> FALSE, targets |-> {}]
NoLast == [kind |-> "none", req |-> <<>>, status |-> "none",
           invoked |-> {}, headers |-> {}]

----------------------------------------------------------------------------
(* Helpers of the constructs *)

At(l) == pc = l /\ error.kind = "none"

\* a resource of a statement is the sequence of the "/"-separated segments of
\* its string; an identifier that is passed in is one segment
Arn(id) == <<id>>

\* new PolicyStatement({effect, actions, resources}), as it is passed to
\* addToRolePolicy in a constructor
PolicyStatement(actions, res) ==
    [effect |-> "Allow", actions |-> actions, resources |-> res,
     via |-> "addToRolePolicy"]

\* the statement a grant method of a resource or a helper adds
GrantedBy(method, actions, res) ==
    [PolicyStatement(actions, res) EXCEPT !.via = method]

\* fn.addToRolePolicy(statement): appends, never replaces
AddToRolePolicy(pol, unit, stmt) ==
    [pol EXCEPT ![unit] = Append(@, stmt)]

\* table.grantReadWriteData(fn)
TableReadWriteStatement ==
    GrantedBy("grantReadWriteData", {"dynamodb:ReadWriteData"}, {Arn(TableArn)})

GrantReadWriteData(pol, unit) ==
    AddToRolePolicy(pol, unit, TableReadWriteStatement)

\* number of statements of a sequence that satisfy Test
CountStatements(seq, Test(_)) ==
    Cardinality({i \in DOMAIN seq : Test(seq[i])})

\* new lambda.Function / BaseLambdaFunction(scope, id, {environment})
DeclareFunction(e, unit, environment) ==
    [e EXCEPT ![unit] = environment]

Paths(res) == {r[1] : r \in res}

\* parent.addResource(segment), requested by a component: a path that is
\* already registered is rejected, the resources are left as they were
AddResource(st, path, by) ==
    IF st.err.kind # "none" THEN st
    ELSE IF path \in Paths(st.res)
         THEN [st EXCEPT !.err = [kind |-> "collision", path |-> path, by |-> by]]
         ELSE [st EXCEPT !.res = @ \cup {<<path, by>>}]

RECURSIVE AddResources(_, _, _)
AddResources(st, paths, by) ==
    IF paths = <<>> THEN st
    ELSE AddResources(AddResource(st, Head(paths), by), Tail(paths), by)

\* resource.addMethod(httpMethod, integration, options)
Method(path, httpMethod, integration, authorizationType, methodResponseHeaders) ==
    [path |-> path, httpMethod |-> httpMethod, integration |-> integration,
     authorizationType |-> authorizationType,
     methodResponseHeaders |-> methodResponseHeaders]

\* new apigateway.LambdaIntegration(fn, {allowTestInvoke: false})
LambdaIntegration(unit) ==
    [type |-> "AWS_PROXY", unit |-> unit, responseParameters |-> {}]

----------------------------------------------------------------------------
(* Initial state: nothing is declared; the stack's Props are any of the   *)
(* configurations                                                          *)

\* a comma-separated string is the sequence of its identifiers and commas;
\* the empty sequence is the empty string
SubnetIdStrings == {<<>>, <<"subnet-a", ",", "subnet-b">>}
SecurityGroupStrings == {<<>>, <<"sg-a">>}

StackPropsSet ==
    [autoApprovalLambdaARN : AutoApprovalARNs,
     apiGatewayWafAclArn : WafAclArns,
     shouldRunCronHealthCheckCacheSync : BOOLEAN,
     identityGroupFilter : GroupFilters,
     subnetIds : SubnetIdStrings,
     securityGroups : SecurityGroupStrings]

NoVpcConfig == [set |-> FALSE]
Components ==
    {"AccessHandler", "Governance", "TargetGroupGranter", "EventHandler",
     "Notifiers", "IdpSync", "CacheSync", "HealthCheck"}
NotHanded == [set |-> FALSE]
NoDelivery ==
    [state |-> "idle", attempts |-> 0, unit |-> "none", retryAttempts |-> {}]

Init ==
    /\ stackProps \in StackPropsSet
    /\ vpcConfig = NoVpcConfig
    /\ handed = [c \in Components |-> NotHanded]
    /\ sourceName = ""
    /\ props = NoProps
    /\ pc = "S_VpcConfig"
    /\ declared = {}
    /\ env = [u \in Units |-> {}]
    /\ policy = [u \in Units |-> <<>>]
    /\ resources = {}
    /\ methods = {}
    /\ conditions = <<>>
    /\ associations = <<>>
    /\ rules = [n \in RuleNames |-> NoRule]
    /\ lambdaPerms = {}
    /\ error = NoError
    /\ delivery = NoDelivery
    /\ last = NoLast

\* a step that only declares a construct
Declare(from, id, to) ==
    /\ At(from)
    /\ declared' = declared \cup {id}
    /\ pc' = to
    /\ UNCHANGED <<stackProps, vpcConfig, handed, delivery,
                   sourceName, props, env, policy, resources, methods,
                   conditions, associations, rules, lambdaPerms, error, last>>

\* new X(this, id, {...}): a construct whose constructor is given received
\* as its Props
Construct(from, id, received, to) ==
    /\ At(from)
    /\ handed' = [handed EXCEPT ![id] = received]
    /\ declared' = declared \cup {id}
    /\ pc' = to
    /\ UNCHANGED <<stackProps, vpcConfig, delivery, sourceName, props, env,
                   policy, resources, methods, conditions, associations, rules,
                   lambdaPerms, error, last>>

\* new X(this, id, {...}) of a construct whose constructor is followed
\* statement by statement: its Props are handed over and control enters it
Enter(from, id, received, to) ==
    /\ At(from)
    /\ handed' = [handed EXCEPT ![id] = received]
    /\ pc' = to
    /\ UNCHANGED <<stackProps, vpcConfig, delivery, sourceName, props, declared,
                   env, policy, resources, methods, conditions, associations,
                   rules, lambdaPerms, error, last>>

----------------------------------------------------------------------------
(* CommonFateStackDev.constructor *)

\* String.prototype.split(","): the pieces between the commas; the empty
\* string gives one empty piece
RECURSIVE Split(_)
Split(s) ==
    IF s = <<>> THEN << <<>> >>
    ELSE IF Head(s) = "," THEN << <<>> >> \o Split(Tail(s))
    ELSE LET r == Split(Tail(s))
         IN << <<Head(s)>> \o Head(r) >> \o Tail(r)

\* Fn.conditionAnd(Fn.conditionNot(Fn.conditionEquals(props.subnetIds, "")),
\*                 Fn.conditionNot(Fn.conditionEquals(props.securityGroups, "")))
AttachLambdaToVpcCondition(p) ==
    ~(p.subnetIds = <<>>) /\ ~(p.securityGroups = <<>>)

\* Fn.conditionIf(condition, valueIfTrue, valueIfFalse), resolved
ConditionIf(condition, valueIfTrue, valueIfFalse) ==
    IF condition THEN valueIfTrue ELSE valueIfFalse

\* mutant: the lists are attached whatever the condition says
VpcConfig_Unconditional(p) ==
    [set |-> TRUE,
     subnetIds |-> Split(p.subnetIds),
     securityGroupIds |-> Split(p.securityGroups)]

\* const vpcConfig: VpcConfig = {subnetIds: ..., securityGroupIds: ...}
VpcConfig(p) ==
    [set |-> TRUE,
     subnetIds |->
         ConditionIf(AttachLambdaToVpcCondition(p), Split(p.subnetIds), <<>>),
     securityGroupIds |->
         ConditionIf(AttachLambdaToVpcCondition(p), Split(p.securityGroups),
                     <<>>)]

\* new CfnCondition(this, "AttachLambdaToVpcCondition", ...) and the
\* vpcConfig literal
S_VpcConfig ==
    /\ At("S_VpcConfig")
    /\ vpcConfig' = VpcConfig(stackProps)
    /\ declared' = declared \cup {"AttachLambdaToVpcCondition"}
    /\ pc' = "S_Database"
    /\ UNCHANGED <<stackProps, handed, delivery, sourceName, props, env, policy,
                   resources, methods, conditions, associations, rules,
                   lambdaPerms, error, last>>

S_Database == Declare("S_Database", "Database", "S_Frontend")
S_Frontend == Declare("S_Frontend", "Frontend", "S_WebUserPool")
S_WebUserPool == Declare("S_WebUserPool", "WebUserPool", "S_EventBus")
\* new EventBus(this, "EventBus", {appName}): the construct fixes the source
\* name its publishers tag events with
S_EventBus ==
    /\ At("S_EventBus")
    /\ sourceName' \in SourceNames
    /\ declared' = declared \cup {"EventBus"}
    /\ pc' = "S_AccessHandler"
    /\ UNCHANGED <<stackProps, vpcConfig, handed, delivery,
                   props, env, policy, resources, methods,
                   conditions, associations, rules, lambdaPerms, error, last>>
\* mutant: the KMS key is not built before governance
S_AccessHandler_SkipsKey ==
    Construct("S_AccessHandler", "AccessHandler",
              [set |-> TRUE, eventBus |-> getEventBus,
               eventBusSourceName |-> sourceName, vpcConfig |-> vpcConfig],
              "S_Governance")

\* the Props object literal of new AccessHandler(this, "AccessHandler", {...})
AccessHandlerProps ==
    [set |-> TRUE, eventBus |-> getEventBus, eventBusSourceName |-> sourceName,
     vpcConfig |-> vpcConfig]

S_AccessHandler ==
    Construct("S_AccessHandler", "AccessHandler", AccessHandlerProps, "S_KmsKey")
S_KmsKey == Declare("S_KmsKey", "PaginationKMSKey", "S_Governance")
\* the Props object literal of new Governance(this, "Governance", {...})
GovernanceProps ==
    [set |-> TRUE, dynamoTable |-> getTable, vpcConfig |-> vpcConfig]

S_Governance ==
    Construct("S_Governance", "Governance", GovernanceProps,
              "S_TargetGroupGranter")

\* the Props object literal of new TargetGroupGranter(...)
TargetGroupGranterProps ==
    [set |-> TRUE, eventBus |-> getEventBus, eventBusSourceName |-> sourceName,
     dynamoTable |-> getTable, vpcConfig |-> vpcConfig]

S_TargetGroupGranter ==
    Construct("S_TargetGroupGranter", "TargetGroupGranter",
              TargetGroupGranterProps, "S_AppBackend")

\* props.shouldRunCronHealthCheckCacheSync || false
OrFalse(b) == b \/ FALSE

\* the Props object literal of new AppBackend(this, "API", {...})
AppBackendProps ==
    [set |-> TRUE,
     autoApprovalLambdaARN |-> stackProps.autoApprovalLambdaARN,
     apiGatewayWafAclArn |-> stackProps.apiGatewayWafAclArn,
     shouldRunCronHealthCheckCacheSync |->
         OrFalse(stackProps.shouldRunCronHealthCheckCacheSync),
     identityGroupFilter |-> stackProps.identityGroupFilter,
     eventBus |-> getEventBus,
     eventBusSourceName |-> sourceName,
     dynamoTable |-> getTable,
     vpcConfig |-> vpcConfig]

\* new AppBackend(this, "API", {...}): enters AppBackend.constructor
S_AppBackend ==
    /\ At("S_AppBackend")
    /\ props' = AppBackendProps
    /\ pc' = "B_WebhookHandlerFunction"
    /\ UNCHANGED <<stackProps, vpcConfig, handed, delivery,
                   sourceName, declared, env, policy, resources, methods,
                   conditions, associations, rules, lambdaPerms, error, last>>

\* generateOutputs(this, {...})
S_Outputs == Declare("S_Outputs", "Outputs", "done")

----------------------------------------------------------------------------
(* AppBackend.constructor *)

\* a step that only adds statements to role policies
Grant(from, newPolicy, to) ==
    /\ At(from)
    /\ policy' = newPolicy
    /\ pc' = to
    /\ UNCHANGED <<stackProps, vpcConfig, handed, delivery,
                   sourceName, props, declared, env, resources,
                   methods, conditions, associations, rules, lambdaPerms,
                   error, last>>

\* a step that declares a compute unit with its environment
NewFunction(from, id, environment, to) ==
    /\ At(from)
    /\ env' = DeclareFunction(env, id, environment)
    /\ declared' = declared \cup {id}
    /\ pc' = to
    /\ UNCHANGED <<stackProps, vpcConfig, handed, delivery,
                   sourceName, props, policy, resources, methods,
                   conditions, associations, rules, lambdaPerms, error, last>>

\* a step that registers resources and methods on the RestApi; a collision
\* throws out of the constructor
Register(from, paths, newMethods, ids, to) ==
    /\ At(from)
    /\ LET st == AddResources([res |-> resources, err |-> NoError],
                              paths, "AppBackend")
       IN /\ resources' = st.res
          /\ error' = st.err
          /\ IF st.err.kind = "none"
             THEN /\ methods' = methods \cup newMethods
                  /\ declared' = declared \cup ids
                  /\ pc' = to
             ELSE UNCHANGED <<methods, declared, pc>>
    /\ UNCHANGED <<stackProps, vpcConfig, handed, delivery,
                   sourceName, props, env, policy, conditions,
                   associations, rules, lambdaPerms, last>>

\* this._dynamoTable = props.dynamoTable
WebhookEnvironment ==
    {<<"COMMONFATE_TABLE_NAME", props.dynamoTable.tableName>>}

B_WebhookHandlerFunction ==
    NewFunction("B_WebhookHandlerFunction", "WebhookHandlerFunction",
                WebhookEnvironment, "B_WebhookTableGrant")

WebhookTableGrant == GrantReadWriteData(policy, "WebhookHandlerFunction")

\* mutant: the routes are requested before the RestApi is created
B_WebhookTableGrant_SkipsRestApi ==
    Grant("B_WebhookTableGrant", WebhookTableGrant, "B_WebhookRoutes")

B_WebhookTableGrant ==
    Grant("B_WebhookTableGrant", WebhookTableGrant, "B_RestApi")

B_RestApi == Declare("B_RestApi", "RestAPI", "B_WebhookRoutes")

\* root.addResource("webhook").addResource("v1").addResource("{proxy+}")
WebhookPaths ==
    << <<"webhook">>, <<"webhook", "v1">>, <<"webhook", "v1", "{proxy+}">> >>

\* mutant: the webhook route integrates the API unit
WebhookProxyMethod_ToApi ==
    Method(<<"webhook", "v1", "{proxy+}">>, "ANY",
           LambdaIntegration("RestAPIHandlerFunction"), "NONE", {})

\* webhookProxy.addMethod("ANY", new LambdaIntegration(this._webhookLambda))
WebhookProxyMethod ==
    Method(<<"webhook", "v1", "{proxy+}">>, "ANY",
           LambdaIntegration("WebhookHandlerFunction"), "NONE", {})

B_WebhookRoutes ==
    Register("B_WebhookRoutes", WebhookPaths, {WebhookProxyMethod}, {},
             "B_RestAPIHandlerFunction")

RestAPIEnvironment ==
    {<<"COMMONFATE_TABLE_NAME", props.dynamoTable.tableName>>,
     <<"COMMONFATE_FRONTEND_URL", FrontendUrl>>,
     <<"COMMONFATE_COGNITO_USER_POOL_ID", UserPoolId>>,
     <<"COMMONFATE_MOCK_ACCESS_HANDLER", "false">>,
     <<"COMMONFATE_ACCESS_HANDLER_URL", AccessHandlerUrl>>,
     <<"COMMONFATE_EVENT_BUS_ARN", props.eventBus.eventBusArn>>,
     <<"COMMONFATE_EVENT_BUS_SOURCE", props.eventBusSourceName>>,
     <<"COMMONFATE_IDENTITY_GROUP_FILTER", props.identityGroupFilter>>,
     <<"COMMONFATE_AUTO_APPROVAL_LAMBDA_ARN", props.autoApprovalLambdaARN>>}

B_RestAPIHandlerFunction ==
    NewFunction("B_RestAPIHandlerFunction", "RestAPIHandlerFunction",
                RestAPIEnvironment, "B_KmsGrant")

KmsGrant ==
    AddToRolePolicy(policy, "RestAPIHandlerFunction",
        GrantedBy("grantEncryptDecrypt", {"kms:Encrypt", "kms:Decrypt"},
                  {Arn("arn:aws:kms:key")}))

B_KmsGrant == Grant("B_KmsGrant", KmsGrant, "B_AutoApprovalGrant")

\* mutant: the grant is added without the test on the ARN
AutoApprovalGrant_Always ==
    AddToRolePolicy(policy, "RestAPIHandlerFunction",
        PolicyStatement({"lambda:InvokeFunction"},
                        {Arn(props.autoApprovalLambdaARN)}))

\* if (props.autoApprovalLambdaARN.length !== 0) addToRolePolicy(...)
AutoApprovalGrant ==
    IF props.autoApprovalLambdaARN # ""
    THEN AddToRolePolicy(policy, "RestAPIHandlerFunction",
             PolicyStatement({"lambda:InvokeFunction"},
                             {Arn(props.autoApprovalLambdaARN)}))
    ELSE policy

B_AutoApprovalGrant ==
    Grant("B_AutoApprovalGrant", AutoApprovalGrant, "B_CognitoGrant")

CognitoActions ==
    {"cognito-idp:AdminListGroupsForUser", "cognito-idp:ListUsers",
     "cognito-idp:ListGroups", "cognito-idp:ListUsersInGroup",
     "cognito-idp:AdminGetUser", "cognito-idp:AdminListUserAuthEvents",
     "cognito-idp:AdminUserGlobalSignOut", "cognito-idp:DescribeUserPool",
     "cognito-idp:AdminAddUserToGroup", "cognito-idp:AdminCreateUser",
     "cognito-idp:CreateGroup", "cognito-idp:AdminRemoveUserFromGroup"}

\* mutant: the Cognito statement names every resource
CognitoGrant_AllResources ==
    AddToRolePolicy(policy, "RestAPIHandlerFunction",
        PolicyStatement(CognitoActions, {<<"*">>}))

CognitoGrant ==
    AddToRolePolicy(policy, "RestAPIHandlerFunction",
        PolicyStatement(CognitoActions, {Arn(UserPoolArn)}))

B_CognitoGrant == Grant("B_CognitoGrant", CognitoGrant, "B_SsmGrants")

SsmGrants ==
    AddToRolePolicy(
        AddToRolePolicy(policy, "RestAPIHandlerFunction",
            PolicyStatement({"ssm:GetParameter", "ssm:PutParameter"},
                {<<"arn:aws:ssm:parameter", "granted", "secrets", "identity",
                   "*">>})),
        "RestAPIHandlerFunction",
        PolicyStatement({"ssm:PutParameter"},
            {<<"arn:aws:ssm:parameter", "granted", "providers", "*">>}))

B_SsmGrants == Grant("B_SsmGrants", SsmGrants, "B_StatesGrant")

StatesGrant ==
    AddToRolePolicy(policy, "RestAPIHandlerFunction",
        PolicyStatement({"states:StopExecution", "states:StartExecution",
                         "states:DescribeExecution",
                         "states:GetExecutionHistory"}, {<<"*">>}))

B_StatesGrant == Grant("B_StatesGrant", StatesGrant, "B_AssumeRoles")

\* grantAssumeIdentitySyncRole(fn); grantAssumeHandlerRole(fn): helpers that
\* let the unit assume the roles tagged for it
GrantAssumeRole(pol, unit, role) ==
    AddToRolePolicy(pol, unit,
        GrantedBy("grantAssumeRole", {"sts:AssumeRole"}, {Arn(role)}))

AssumeRoles ==
    GrantAssumeRole(
        GrantAssumeRole(policy, "RestAPIHandlerFunction", "identity-sync-role"),
        "RestAPIHandlerFunction", "handler-role")

B_AssumeRoles == Grant("B_AssumeRoles", AssumeRoles, "B_ApiRoutes")

\* mutant: the API tree is requested under the webhook resource's name
ApiPaths_OnWebhook ==
    << <<"webhook">>, <<"webhook", "v1">>, <<"webhook", "v1", "{proxy+}">> >>

\* root.addResource("api").addResource("v1").addResource("{proxy+}")
ApiPaths == << <<"api">>, <<"api", "v1">>, <<"api", "v1", "{proxy+}">> >>

\* mutant: the ANY method is declared without the authorizer
ApiProxyMethod_NoAuth ==
    Method(<<"api", "v1", "{proxy+}">>, "ANY",
           LambdaIntegration("RestAPIHandlerFunction"), "NONE", {})

\* lambdaProxy.addMethod("ANY", new LambdaIntegration(this._lambda),
\*   {authorizationType: COGNITO, authorizer: CognitoUserPoolsAuthorizer})
ApiProxyMethod ==
    Method(<<"api", "v1", "{proxy+}">>, "ANY",
           LambdaIntegration("RestAPIHandlerFunction"), "COGNITO", {})

B_ApiRoutes ==
    Register("B_ApiRoutes", ApiPaths, {ApiProxyMethod}, {"Authorizer"},
             "B_CorsOptions")

ALLOWED_HEADERS ==
    <<"Content-Type", "X-Amz-Date", "X-Amz-Security-Token", "Authorization",
      "X-Api-Key", "X-Requested-With", "Accept",
      "Access-Control-Allow-Methods", "Access-Control-Allow-Origin",
      "Access-Control-Allow-Headers">>

\* new apigateway.MockIntegration({integrationResponses: [{statusCode: "200",
\*   responseParameters: {...}}], passthroughBehavior: NEVER})
standardCorsMockIntegration ==
    [type |-> "MOCK", unit |-> "none",
     responseParameters |->
        {<<"Access-Control-Allow-Headers", ALLOWED_HEADERS>>,
         <<"Access-Control-Allow-Origin", <<"*">> >>,
         <<"Access-Control-Allow-Credentials", <<"false">> >>,
         <<"Access-Control-Allow-Methods",
           <<"OPTIONS", "GET", "PUT", "POST", "DELETE">> >>}]

\* mutant: the method response leaves out Allow-Credentials
optionsMethodResponse_NoCredentials ==
    {"Access-Control-Allow-Headers", "Access-Control-Allow-Methods",
     "Access-Control-Allow-Origin"}

\* optionsMethodResponse.responseParameters: the headers declared true
optionsMethodResponse ==
    {"Access-Control-Allow-Headers", "Access-Control-Allow-Methods",
     "Access-Control-Allow-Credentials", "Access-Control-Allow-Origin"}

\* lambdaProxy.addMethod("OPTIONS", standardCorsMockIntegration,
\*   {authorizationType: NONE, methodResponses: [optionsMethodResponse]})
CorsOptionsMethod ==
    Method(<<"api", "v1", "{proxy+}">>, "OPTIONS", standardCorsMockIntegration,
           "NONE", optionsMethodResponse)

B_CorsOptions ==
    Register("B_CorsOptions", <<>>, {CorsOptionsMethod}, {}, "B_ApiTableGrant")

ApiTableGrant == GrantReadWriteData(policy, "RestAPIHandlerFunction")

B_ApiTableGrant == Grant("B_ApiTableGrant", ApiTableGrant, "B_ExecuteApiGrant")

ExecuteApiGrant(pol, unit) ==
    AddToRolePolicy(pol, unit,
        PolicyStatement({"execute-api:Invoke"}, {AccessHandlerExecuteApiArn}))

\* addToRolePolicy(execute-api:Invoke); props.eventBus.grantPutEventsTo(fn)
ExecuteApiAndPutEventsGrant ==
    AddToRolePolicy(ExecuteApiGrant(policy, "RestAPIHandlerFunction"),
        "RestAPIHandlerFunction",
        GrantedBy("grantPutEventsTo", {"events:PutEvents"}, {Arn(EventBusArn)}))

B_ExecuteApiGrant ==
    Grant("B_ExecuteApiGrant", ExecuteApiAndPutEventsGrant, "B_WafAssociation")

ProdStage == [restApiId |-> RestApiId, stage |-> "prod"]

\* mutant: the association names the RestApi's dev stage
wafAssociation_WrongStage(apiGatewayWafAclArn) ==
    IF apiGatewayWafAclArn # ""
    THEN [conditions |->
              Append(conditions, "CreateApiGatewayWafAssociationCondition"),
          associations |->
              Append(associations,
                     [resourceArn |-> [restApiId |-> RestApiId, stage |-> "dev"],
                      webAclArn |-> apiGatewayWafAclArn,
                      condition |-> "CreateApiGatewayWafAssociationCondition"])]
    ELSE [conditions |-> conditions, associations |-> associations]

\* AppBackend.wafAssociation(apiGatewayWafAclArn)
wafAssociation(apiGatewayWafAclArn) ==
    IF apiGatewayWafAclArn # ""
    THEN [conditions |->
              Append(conditions, "CreateApiGatewayWafAssociationCondition"),
          associations |->
              Append(associations,
                     [resourceArn |-> ProdStage,
                      webAclArn |-> apiGatewayWafAclArn,
                      condition |-> "CreateApiGatewayWafAssociationCondition"])]
    ELSE [conditions |-> conditions, associations |-> associations]

\* props.apiGatewayWafAclArn && this.wafAssociation(props.apiGatewayWafAclArn)
WafStep ==
    IF props.apiGatewayWafAclArn # ""
    THEN wafAssociation(props.apiGatewayWafAclArn)
    ELSE [conditions |-> conditions, associations |-> associations]

B_WafAssociation ==
    /\ At("B_WafAssociation")
    /\ conditions' = WafStep.conditions
    /\ associations' = WafStep.associations
    /\ pc' = "B_EventHandler"
    /\ UNCHANGED <<stackProps, vpcConfig, handed, delivery,
                   sourceName, props, declared, env, policy,
                   resources, methods, rules, lambdaPerms, error, last>>

\* the Props object literal of new EventHandler(this, "EventHandler", {...})
EventHandlerProps ==
    [set |-> TRUE, dynamoTable |-> props.dynamoTable,
     eventBus |-> props.eventBus,
     eventBusSourceName |-> props.eventBusSourceName,
     vpcConfig |-> props.vpcConfig]

B_EventHandler ==
    Construct("B_EventHandler", "EventHandler", EventHandlerProps,
              "B_Notifiers")

\* mutant: the notifier is given a source name of its own
NotifiersProps_OwnSourceName ==
    [set |-> TRUE, dynamoTable |-> props.dynamoTable,
     eventBus |-> props.eventBus,
     eventBusSourceName |-> "commonfate.notifier",
     vpcConfig |-> props.vpcConfig]

\* the Props object literal of new Notifiers(this, "Notifiers", {...})
NotifiersProps ==
    [set |-> TRUE, dynamoTable |-> props.dynamoTable,
     eventBus |-> props.eventBus,
     eventBusSourceName |-> props.eventBusSourceName,
     vpcConfig |-> props.vpcConfig]

B_Notifiers ==
    Enter("B_Notifiers", "Notifiers", NotifiersProps, "N_SlackNotifierFunction")

----------------------------------------------------------------------------
(* Notifiers.constructor, called from AppBackend.constructor *)

\* new LambdaFunction(fn, {retryAttempts}) as the target of a rule
LambdaFunctionTarget(unit, retryAttempts) ==
    [unit |-> unit, retryAttempts |-> retryAttempts]

\* a step that declares or changes an event rule; binding a LambdaFunction
\* target gives the rule the permission to invoke the unit
RuleStep(from, name, rule, perms, to) ==
    /\ At(from)
    /\ rules' = [rules EXCEPT ![name] = rule]
    /\ lambdaPerms' = lambdaPerms \cup perms
    /\ declared' = declared \cup {name}
    /\ pc' = to
    /\ UNCHANGED <<stackProps, vpcConfig, handed, delivery,
                   sourceName, props, env, policy, resources,
                   methods, conditions, associations, error, last>>

SlackNotifierEnvironment ==
    {<<"COMMONFATE_TABLE_NAME", handed["Notifiers"].dynamoTable.tableName>>,
     <<"COMMONFATE_FRONTEND_URL", FrontendUrl>>,
     <<"COMMONFATE_COGNITO_USER_POOL_ID", UserPoolId>>}

N_SlackNotifierFunction ==
    NewFunction("N_SlackNotifierFunction", "SlackNotifierFunction",
                SlackNotifierEnvironment, "N_SsmGrant")

SlackSsmGrant ==
    AddToRolePolicy(policy, "SlackNotifierFunction",
        PolicyStatement({"ssm:GetParameter"},
            {<<"arn:aws:ssm:parameter", "granted", "secrets", "notifications",
               "*">>}))

N_SsmGrant == Grant("N_SsmGrant", SlackSsmGrant, "N_SlackRule")

\* mutant: the pattern also names one detail type
SlackEventPattern_WithDetailType ==
    [source |-> {handed["Notifiers"].eventBusSourceName},
     detailType |-> {"request.created"}]

\* eventPattern: { source: [props.eventBusSourceName] }
SlackEventPattern ==
    [source |-> {handed["Notifiers"].eventBusSourceName},
     detailType |-> AnyValue]

\* mutant: the target is retried three times
SlackRule_ThreeRetries ==
    [exists |-> TRUE, eventBus |-> handed["Notifiers"].eventBus.eventBusArn,
     schedule |-> "none",
     eventPattern |-> [source |-> {handed["Notifiers"].eventBusSourceName},
                       detailType |-> AnyValue],
     enabled |-> TRUE,
     targets |-> {LambdaFunctionTarget("SlackNotifierFunction", {3})}]

\* new Rule(this, "SlackNotifierEventBridgeRule", {eventBus, eventPattern,
\*   targets: [new LambdaFunction(this._slackLambda, {retryAttempts: 2})]})
SlackRule ==
    [exists |-> TRUE, eventBus |-> handed["Notifiers"].eventBus.eventBusArn,
     schedule |-> "none",
     eventPattern |-> SlackEventPattern, enabled |-> TRUE,
     targets |-> {LambdaFunctionTarget("SlackNotifierFunction", {2})}]

N_SlackRule ==
    RuleStep("N_SlackRule", "SlackNotifierEventBridgeRule", SlackRule,
             {<<"SlackNotifierEventBridgeRule", "SlackNotifierFunction">>},
             "N_TableGrant")

\* props.dynamoTable.grantReadWriteData(this._slackLambda);
\* addToRolePolicy(cognito-idp:AdminGetUser on the user pool)
SlackTableAndCognitoGrant ==
    AddToRolePolicy(GrantReadWriteData(policy, "SlackNotifierFunction"),
        "SlackNotifierFunction",
        PolicyStatement({"cognito-idp:AdminGetUser"}, {Arn(UserPoolArn)}))

N_TableGrant == Grant("N_TableGrant", SlackTableAndCognitoGrant, "N_Return")

N_Return == Declare("N_Return", "Notifiers", "B_IdpSync")

\* the Props object literal of new IdpSync(this, "IdpSync", {...})
IdpSyncProps ==
    [set |-> TRUE, dynamoTable |-> props.dynamoTable,
     identityGroupFilter |-> props.identityGroupFilter,
     vpcConfig |-> props.vpcConfig]

B_IdpSync == Construct("B_IdpSync", "IdpSync", IdpSyncProps, "B_CacheSync")

----------------------------------------------------------------------------
(* CacheSync.constructor, called from AppBackend.constructor *)

\* the Props object literal of new CacheSync(this, "CacheSync", {...})
CacheSyncProps ==
    [set |-> TRUE, dynamoTable |-> props.dynamoTable,
     shouldRunAsCron |-> props.shouldRunCronHealthCheckCacheSync,
     identityGroupFilter |-> props.identityGroupFilter,
     vpcConfig |-> props.vpcConfig]

B_CacheSync ==
    Enter("B_CacheSync", "CacheSync", CacheSyncProps, "C_HandlerFunction")

\* environment of the cache-sync HandlerFunction
CacheSyncEnvironment(p) ==
    {<<"COMMONFATE_ACCESS_HANDLER_URL", AccessHandlerUrl>>,
     <<"COMMONFATE_TABLE_NAME", p.dynamoTable.tableName>>}

C_HandlerFunction ==
    NewFunction("C_HandlerFunction", "CacheSyncHandlerFunction",
                CacheSyncEnvironment(handed["CacheSync"]), "C_TableGrant")

\* mutant: the table grant is made twice
CacheSyncTableGrant_Twice ==
    GrantReadWriteData(GrantReadWriteData(policy, "CacheSyncHandlerFunction"),
                       "CacheSyncHandlerFunction")

CacheSyncTableGrant == GrantReadWriteData(policy, "CacheSyncHandlerFunction")

C_TableGrant == Grant("C_TableGrant", CacheSyncTableGrant, "C_CronRule")

\* mutant: the rule ignores shouldRunAsCron
CronRule_AlwaysEnabled(p) ==
    [exists |-> TRUE, eventBus |-> "default", schedule |-> "cron(0/5 * * * ? *)",
     eventPattern |-> NoPattern, enabled |-> TRUE, targets |-> {}]

\* new events.Rule(this, "EventBridgeCronRule",
\*   {schedule: cron({minute: "0/5"}), enabled: props.shouldRunAsCron})
CronRule(p) ==
    [exists |-> TRUE, eventBus |-> "default", schedule |-> "cron(0/5 * * * ? *)",
     eventPattern |-> NoPattern, enabled |-> p.shouldRunAsCron, targets |-> {}]

C_CronRule ==
    RuleStep("C_CronRule", "EventBridgeCronRule",
             CronRule(handed["CacheSync"]), {},
             "C_AddTarget")

\* this.eventRule.addTarget(new targets.LambdaFunction(this._lambda))
CronRuleWithTarget ==
    [rules["EventBridgeCronRule"] EXCEPT !.targets =
        @ \cup {LambdaFunctionTarget("CacheSyncHandlerFunction", {})}]

C_AddTarget ==
    RuleStep("C_AddTarget", "EventBridgeCronRule", CronRuleWithTarget,
             {<<"EventBridgeCronRule", "CacheSyncHandlerFunction">>},
             "C_AddLambdaPermission")

\* targets.addLambdaPermission(this.eventRule, this._lambda)
C_AddLambdaPermission ==
    RuleStep("C_AddLambdaPermission", "EventBridgeCronRule",
             rules["EventBridgeCronRule"],
             {<<"EventBridgeCronRule", "CacheSyncHandlerFunction">>},
             "C_Grants")

\* addToRolePolicy(execute-api:Invoke); grantAssumeHandlerRole(this._lambda)
CacheSyncGrants ==
    GrantAssumeRole(ExecuteApiGrant(policy, "CacheSyncHandlerFunction"),
                    "CacheSyncHandlerFunction", "handler-role")

C_Grants == Grant("C_Grants", CacheSyncGrants, "C_Return")

C_Return == Declare("C_Return", "CacheSync", "B_HealthChecker")

\* the Props object literal of new HealthChecker(this, "HealthCheck", {...})
HealthCheckerProps ==
    [set |-> TRUE, dynamoTable |-> props.dynamoTable,
     shouldRunAsCron |-> props.shouldRunCronHealthCheckCacheSync,
     vpcConfig |-> props.vpcConfig]

B_HealthChecker ==
    Construct("B_HealthChecker", "HealthCheck", HealthCheckerProps, "B_Return")

\* AppBackend.constructor returns: the construct "API" is complete
B_Return == Declare("B_Return", "API", "S_Outputs")

Deployed == pc = "done" /\ error.kind = "none"

----------------------------------------------------------------------------
(* The deployed resources at work *)

RequestPaths ==
    {<<"api", "v1", "requests">>, <<"api", "v1", "admin", "users">>,
     <<"webhook", "v1", "slack">>, <<"api", "v1">>, <<"health">>}
HttpMethods == {"GET", "POST", "OPTIONS"}
Tokens == {"none", "invalid", "valid"}

\* a resource serves a path that equals it, or that extends it at its greedy
\* {proxy+} segment
Serves(r, path) ==
    \/ r = path
    \/ /\ Len(r) > 0
       /\ r[Len(r)] = "{proxy+}"
       /\ Len(path) >= Len(r)
       /\ SubSeq(path, 1, Len(r) - 1) = SubSeq(r, 1, Len(r) - 1)

\* the methods that answer a request: the resource's method of that verb, or
\* its ANY method when it has none of that verb
MethodsFor(path, httpMethod) ==
    LET onPath == {m \in methods : Serves(m.path, path)}
        exact == {m \in onPath : m.httpMethod = httpMethod}
    IN IF exact # {} THEN exact
       ELSE {m \in onPath : m.httpMethod = "ANY"}

\* headers of a mock integration's response: those the method response
\* declares and the integration response maps
ResponseHeaders(m) ==
    {h \in m.methodResponseHeaders :
        \E v \in m.integration.responseParameters : v[1] = h}

\* the outcome of a request at the RestApi: the authorizer of the method
\* first, then its integration
Respond(req) ==
    LET ms == MethodsFor(req.path, req.httpMethod)
    IN IF ms = {}
       THEN [status |-> "403", invoked |-> {}, headers |-> {}]
       ELSE LET m == CHOOSE x \in ms : TRUE
            IN IF m.authorizationType = "COGNITO" /\ req.token # "valid"
               THEN [status |-> "401", invoked |-> {}, headers |-> {}]
               ELSE IF m.integration.type = "MOCK"
                    THEN [status |-> "200", invoked |-> {},
                          headers |-> ResponseHeaders(m)]
                    ELSE [status |-> "200",
                          invoked |-> {m.integration.unit},
                          headers |-> {}]

HttpRequest(path, httpMethod, token) ==
    /\ Deployed
    /\ LET req == [path |-> path, httpMethod |-> httpMethod, token |-> token]
           r == Respond(req)
       IN last' = [kind |-> "http", req |-> req, status |-> r.status,
                   invoked |-> r.invoked, headers |-> r.headers]
    /\ delivery' = NoDelivery
    /\ UNCHANGED compVars

\* an event matches a pattern when every field the pattern names holds one
\* of the values listed for it
Matches(pattern, event) ==
    /\ pattern.source = AnyValue \/ event.source \in pattern.source
    /\ pattern.detailType = AnyValue \/ event.detailType \in pattern.detailType

\* the units a rule invokes when it fires
Fires(name) ==
    {t.unit : t \in {x \in rules[name].targets : <<name, x.unit>> \in lambdaPerms}}

\* the targets, among those the rules in hit invoke, that carry a retry
\* policy of their own
RetryingTargets(hit) ==
    {t \in UNION {rules[n].targets : n \in hit} :
        /\ t.retryAttempts # {}
        /\ \E n \in hit : t \in rules[n].targets /\ <<n, t.unit>> \in lambdaPerms}

\* the delivery a matched event starts: no invocation attempted yet
StartDelivery(hit) ==
    IF RetryingTargets(hit) = {} THEN NoDelivery
    ELSE LET t == CHOOSE x \in RetryingTargets(hit) : TRUE
         IN [state |-> "pending", attempts |-> 0, unit |-> t.unit,
             retryAttempts |-> t.retryAttempts]

\* an event put on a bus: every enabled rule of that bus whose pattern
\* matches invokes its targets
PublishEvent(bus, source, detailType) ==
    /\ Deployed
    /\ LET ev == [bus |-> bus, source |-> source, detailType |-> detailType]
           hit == {n \in RuleNames :
                      /\ rules[n].exists /\ rules[n].enabled
                      /\ rules[n].schedule = "none"
                      /\ rules[n].eventBus = bus
                      /\ Matches(rules[n].eventPattern, ev)}
       IN /\ last' = [kind |-> "event", req |-> ev,
                      status |-> IF hit = {} THEN "unmatched" ELSE "matched",
                      invoked |-> UNION {Fires(n) : n \in hit},
                      headers |-> {}]
          /\ delivery' = StartDelivery(hit)
    /\ UNCHANGED compVars

\* the rule invokes the target of the pending delivery; a failed invocation
\* is tried again while the retries used so far are fewer than the target's
\* retryAttempts, and otherwise the delivery has failed
InvokeTarget(succeeds) ==
    /\ Deployed
    /\ delivery.state = "pending"
    /\ LET retriesUsed == delivery.attempts
           retriesLeft == \E k \in delivery.retryAttempts : retriesUsed < k
       IN delivery' =
            [delivery EXCEPT
               !.attempts = @ + 1,
               !.state = IF succeeds THEN "delivered"
                         ELSE IF retriesLeft THEN "pending" ELSE "failed"]
    /\ UNCHANGED <<compVars, last>>

\* the five-minute mark passes: every enabled scheduled rule fires
ScheduleTick ==
    /\ Deployed
    /\ LET hit == {n \in RuleNames :
                      /\ rules[n].exists /\ rules[n].enabled
                      /\ rules[n].schedule # "none"}
       IN last' = [kind |-> "schedule", req |-> <<>>,
                   status |-> IF hit = {} THEN "unmatched" ELSE "matched",
                   invoked |-> UNION {Fires(n) : n \in hit}, headers |-> {}]
    /\ delivery' = NoDelivery
    /\ UNCHANGED compVars

\* an on-demand invocation of a declared unit
ManualInvoke(unit) ==
    /\ Deployed
    /\ unit \in declared
    /\ last' = [kind |-> "manual", req |-> <<unit>>, status |-> "200",
                invoked |-> {unit}, headers |-> {}]
    /\ delivery' = NoDelivery
    /\ UNCHANGED compVars

----------------------------------------------------------------------------

\* the constructs the statement at a position reads: the collaborators in
\* its props literal, the function it grants to, the resource it extends
References(l) ==
    CASE l = "S_WebUserPool" -> {"Frontend"}
      [] l = "S_AccessHandler" -> {"EventBus", "AttachLambdaToVpcCondition"}
      [] l = "S_Governance" ->
            {"PaginationKMSKey", "AccessHandler", "Database",
             "AttachLambdaToVpcCondition"}
      [] l = "S_TargetGroupGranter" ->
            {"EventBus", "Database", "AttachLambdaToVpcCondition"}
      [] l = "S_AppBackend" ->
            {"WebUserPool", "Frontend", "AccessHandler", "Governance",
             "AttachLambdaToVpcCondition",
             "EventBus", "Database", "PaginationKMSKey", "TargetGroupGranter"}
      [] l = "S_Outputs" ->
            {"WebUserPool", "Frontend", "API", "Governance", "AccessHandler",
             "EventBus", "TargetGroupGranter", "IdpSync", "EventHandler",
             "Notifiers", "CacheSync", "HealthCheck"}
      [] l = "B_WebhookHandlerFunction" -> {"Database"}
      [] l = "B_WebhookTableGrant" -> {"Database", "WebhookHandlerFunction"}
      [] l = "B_WebhookRoutes" -> {"RestAPI", "WebhookHandlerFunction"}
      [] l = "B_RestAPIHandlerFunction" ->
            {"Database", "WebUserPool", "AccessHandler", "EventBus",
             "PaginationKMSKey", "TargetGroupGranter"}
      [] l = "B_KmsGrant" -> {"PaginationKMSKey", "RestAPIHandlerFunction"}
      [] l \in {"B_AutoApprovalGrant", "B_SsmGrants", "B_StatesGrant",
                "B_AssumeRoles"} -> {"RestAPIHandlerFunction"}
      [] l = "B_CognitoGrant" -> {"RestAPIHandlerFunction", "WebUserPool"}
      [] l = "B_ApiRoutes" ->
            {"RestAPI", "RestAPIHandlerFunction", "WebUserPool"}
      [] l = "B_CorsOptions" -> {"RestAPI"}
      [] l = "B_ApiTableGrant" -> {"Database", "RestAPIHandlerFunction"}
      [] l = "B_ExecuteApiGrant" ->
            {"RestAPIHandlerFunction", "AccessHandler", "EventBus"}
      [] l = "B_WafAssociation" -> {"RestAPI"}
      [] l = "B_EventHandler" -> {"Database", "EventBus"}
      [] l = "N_SlackNotifierFunction" -> {"Database", "WebUserPool"}
      [] l = "N_SsmGrant" -> {"SlackNotifierFunction"}
      [] l = "N_SlackRule" -> {"EventBus", "SlackNotifierFunction"}
      [] l = "N_TableGrant" ->
            {"Database", "SlackNotifierFunction", "WebUserPool"}
      [] l = "B_Notifiers" -> {"Database", "EventBus", "WebUserPool"}
      [] l = "B_IdpSync" -> {"Database", "WebUserPool"}
      [] l = "B_CacheSync" -> {"Database", "AccessHandler"}
      [] l = "C_HandlerFunction" -> {"AccessHandler", "Database"}
      [] l = "C_TableGrant" -> {"Database", "CacheSyncHandlerFunction"}
      [] l \in {"C_AddTarget", "C_AddLambdaPermission"} ->
            {"EventBridgeCronRule", "CacheSyncHandlerFunction"}
      [] l = "C_Grants" -> {"CacheSyncHandlerFunction", "AccessHandler"}
      [] l = "B_HealthChecker" -> {"Database"}
      [] OTHER -> {}

Compose ==
    \/ S_VpcConfig
    \/ S_Database \/ S_Frontend \/ S_WebUserPool \/ S_EventBus
    \/ S_AccessHandler \/ S_KmsKey \/ S_Governance \/ S_TargetGroupGranter
    \/ S_AppBackend \/ S_Outputs
    \/ B_WebhookHandlerFunction \/ B_WebhookTableGrant \/ B_RestApi
    \/ B_WebhookRoutes \/ B_RestAPIHandlerFunction \/ B_KmsGrant
    \/ B_AutoApprovalGrant \/ B_CognitoGrant \/ B_SsmGrants \/ B_StatesGrant
    \/ B_AssumeRoles \/ B_ApiRoutes \/ B_CorsOptions \/ B_ApiTableGrant
    \/ B_ExecuteApiGrant \/ B_WafAssociation \/ B_EventHandler \/ B_Notifiers
    \/ N_SlackNotifierFunction \/ N_SsmGrant \/ N_SlackRule \/ N_TableGrant
    \/ N_Return \/ B_IdpSync \/ B_CacheSync
    \/ C_HandlerFunction \/ C_TableGrant \/ C_CronRule \/ C_AddTarget
    \/ C_AddLambdaPermission \/ C_Grants \/ C_Return
    \/ B_HealthChecker \/ B_Return

Run ==
    \/ \E path \in RequestPaths, m \in HttpMethods, t \in Tokens :
          HttpRequest(path, m, t)
    \/ \E bus \in {EventBusArn, "default"}, src \in SourceNames,
          d \in DetailTypes : PublishEvent(bus, src, d)
    \/ ScheduleTick
    \/ \E succeeds \in BOOLEAN : InvokeTarget(succeeds)
    \/ \E u \in Units : ManualInvoke(u)

Next == Compose \/ Run

Spec == Init /\ [][Next]_vars

----------------------------------------------------------------------------
(* The RestApi as a facade other components may request routes on *)

MaxForeign == 1

ForeignPaths ==
    {<<"api">>, <<"api", "v1">>, <<"api", "v1", "{proxy+}">>, <<"status">>}

\* another component calls addResource for a path on the AppBackend's RestApi;
\* the request and its outcome are recorded
ForeignRegister(path) ==
    /\ error.kind = "none"
    /\ "RestAPI" \in declared
    /\ pc # "done"
    /\ Cardinality({r \in resources : r[2] = "other"}) < MaxForeign
    /\ Len(path) = 1 \/ SubSeq(path, 1, Len(path) - 1) \in Paths(resources)
    /\ LET st == AddResource([res |-> resources, err |-> NoError], path, "other")
       IN /\ resources' = st.res
          /\ error' = st.err
          /\ last' = [kind |-> "register", req |-> path,
                      status |-> IF st.err.kind = "none" THEN "registered"
                                 ELSE st.err.kind,
                      invoked |-> {}, headers |-> {}]
    /\ UNCHANGED <<stackProps, vpcConfig, handed, delivery,
                   sourceName, props, pc, declared, env, policy,
                   methods, conditions, associations, rules, lambdaPerms>>

NextFacade == Next \/ \E path \in ForeignPaths : ForeignRegister(path)

SpecFacade == Init /\ [][NextFacade]_vars

----------------------------------------------------------------------------
(* Properties *)

ApiUnit == "RestAPIHandlerFunction"
WebhookUnit == "WebhookHandlerFunction"
SlackUnit == "SlackNotifierFunction"
CacheSyncUnit == "CacheSyncHandlerFunction"
ApiProxy == <<"api", "v1", "{proxy+}">>
WebhookProxy == <<"webhook", "v1", "{proxy+}">>
CorsHeaders ==
    {"Access-Control-Allow-Headers", "Access-Control-Allow-Methods",
     "Access-Control-Allow-Credentials", "Access-Control-Allow-Origin"}

\* composition has raised no error and, until it is complete, can go on
CompositionProceeds ==
    /\ error.kind = "none"
    /\ pc # "done" => ENABLED Compose

IsInvokeFunction(st) == "lambda:InvokeFunction" \in st.actions
InvokeGrants ==
    {i \in DOMAIN policy[ApiUnit] : IsInvokeFunction(policy[ApiUnit][i])}

\* C1: with an empty autoApprovalLambdaARN the API unit's role holds no
\* lambda:InvokeFunction grant and composition does not fail; with a non-empty
\* one it holds exactly one, an allow of lambda:InvokeFunction on exactly
\* that ARN.
C1_AutoApprovalGrant ==
    /\ CompositionProceeds
    /\ Deployed =>
          IF props.autoApprovalLambdaARN = ""
          THEN InvokeGrants = {}
          ELSE /\ Cardinality(InvokeGrants) = 1
               /\ \A i \in InvokeGrants :
                     /\ policy[ApiUnit][i].effect = "Allow"
                     /\ policy[ApiUnit][i].actions = {"lambda:InvokeFunction"}
                     /\ policy[ApiUnit][i].resources =
                            {Arn(props.autoApprovalLambdaARN)}

C1_Witness ==
    /\ Deployed
    /\ props.autoApprovalLambdaARN = ""
    /\ Len(policy[ApiUnit]) > 0
    /\ InvokeGrants = {}

\* C2: with a non-empty apiGatewayWafAclArn composition declares exactly one
\* web-ACL association, on the RestApi's prod stage, with the supplied ARN,
\* under its one condition; with an empty one it declares no association and
\* no condition, and does not fail.
C2_WafAssociation ==
    /\ CompositionProceeds
    /\ Deployed =>
          IF props.apiGatewayWafAclArn # ""
          THEN /\ Len(associations) = 1
               /\ associations[1].resourceArn.restApiId = RestApiId
               /\ associations[1].resourceArn.stage = "prod"
               /\ associations[1].webAclArn = props.apiGatewayWafAclArn
               /\ conditions = <<associations[1].condition>>
          ELSE associations = <<>> /\ conditions = <<>>

C2_Witness ==
    /\ Deployed
    /\ props.apiGatewayWafAclArn # ""
    /\ Len(associations) = 1

IsTableReadWrite(st) == st = TableReadWriteStatement
TableGrants(u) == CountStatements(policy[u], IsTableReadWrite)

\* C3: after composition each of the four units holds the read/write grant
\* on the shared table exactly once; at no point does a unit hold it twice.
C3_TableGrantOnce ==
    /\ \A u \in Units : TableGrants(u) <= 1
    /\ Deployed => \A u \in Units : TableGrants(u) = 1

C3_Witness ==
    /\ Deployed
    /\ \A u \in Units : TableGrants(u) = 1 /\ Len(policy[u]) >= 1

OnApiTree == last.kind = "http" /\ Serves(ApiProxy, last.req.path)
OnWebhookTree == last.kind = "http" /\ Serves(WebhookProxy, last.req.path)

\* C4 as claimed: every request on /api/v1/{proxy+} without a valid token is
\* rejected by the authorizer and invokes no unit.
C4_AsClaimed ==
    OnApiTree /\ last.req.token # "valid" =>
        last.status = "401" /\ last.invoked = {}

\* C4: every request on /api/v1/{proxy+} of a method other than OPTIONS that
\* lacks a valid token is rejected by the authorizer; no request without a
\* valid token invokes any unit (the OPTIONS preflight is answered by the
\* mock integration, without the authorizer); the API unit is invoked through
\* this tree only for a request whose token the authorizer accepted.
C4_AuthenticatedTree ==
    OnApiTree =>
        /\ last.req.token # "valid" /\ last.req.httpMethod # "OPTIONS" =>
              last.status = "401"
        /\ last.req.token # "valid" => last.invoked = {}
        /\ last.invoked # {} =>
              last.invoked = {ApiUnit} /\ last.req.token = "valid"

C4_Witness ==
    /\ OnApiTree
    /\ last.req.token = "invalid"
    /\ last.req.httpMethod = "POST"
    /\ last.status = "401"
    /\ last.invoked = {}

\* C5 as claimed: an OPTIONS request to any proxy route, of the API unit or
\* of the webhook unit, invokes no unit and its response carries the four
\* Access-Control-Allow-* headers.
C5_AsClaimed ==
    (OnApiTree \/ OnWebhookTree) /\ last.req.httpMethod = "OPTIONS" =>
        last.invoked = {} /\ CorsHeaders \subseteq last.headers

\* C5: an OPTIONS request to the proxy route of the API unit,
\* /api/v1/{proxy+}, is answered with status 200 whatever its token, invokes
\* no unit and carries the four Access-Control-Allow-* headers; the webhook
\* proxy route declares no OPTIONS method, and an OPTIONS request to it is
\* forwarded to the webhook unit by its ANY method.
C5_Preflight ==
    /\ OnApiTree /\ last.req.httpMethod = "OPTIONS" =>
          /\ last.status = "200"
          /\ last.invoked = {}
          /\ CorsHeaders \subseteq last.headers
    /\ OnWebhookTree /\ last.req.httpMethod = "OPTIONS" =>
          last.invoked = {WebhookUnit} /\ last.headers = {}

C5_Witness ==
    /\ OnApiTree
    /\ last.req.httpMethod = "OPTIONS"
    /\ last.req.token = "none"
    /\ last.headers = CorsHeaders

\* C6 as claimed: after composition the cache-sync unit's environment holds an
\* entry whose value is the identityGroupFilter passed to CacheSync.
C6_AsClaimed ==
    Deployed =>
        \E e \in env[CacheSyncUnit] : e[2] = CacheSyncProps.identityGroupFilter

CronRuleName == "EventBridgeCronRule"
SlackRuleName == "SlackNotifierEventBridgeRule"

\* C7: after composition the five-minute rule exists, targets the cache-sync
\* unit and holds the permission to invoke it, and is enabled exactly when
\* shouldRunCronHealthCheckCacheSync is true; when it is disabled a schedule
\* tick invokes nothing, when it is enabled a tick invokes the cache-sync
\* unit; an on-demand invocation of the unit succeeds either way.
C7_CronRule ==
    Deployed =>
        /\ rules[CronRuleName].exists
        /\ rules[CronRuleName].schedule = "cron(0/5 * * * ? *)"
        /\ {t.unit : t \in rules[CronRuleName].targets} = {CacheSyncUnit}
        /\ <<CronRuleName, CacheSyncUnit>> \in lambdaPerms
        /\ rules[CronRuleName].enabled =
               stackProps.shouldRunCronHealthCheckCacheSync
        /\ last.kind = "schedule" =>
               last.invoked =
                   IF stackProps.shouldRunCronHealthCheckCacheSync
                   THEN {CacheSyncUnit} ELSE {}
        /\ last.kind = "manual" /\ last.req = <<CacheSyncUnit>> =>
               last.status = "200" /\ last.invoked = {CacheSyncUnit}

C7_Witness ==
    /\ Deployed
    /\ ~stackProps.shouldRunCronHealthCheckCacheSync
    /\ rules[CronRuleName].exists
    /\ ~rules[CronRuleName].enabled
    /\ last.kind = "schedule"
    /\ last.invoked = {}

ProxyResources ==
    {r \in Paths(resources) : Len(r) > 0 /\ r[Len(r)] = "{proxy+}"}
MethodsOn(path) == {m \in methods : m.path = path}

\* C8: the deployed RestApi has exactly the two trees api and webhook, each
\* with one proxy resource; the ANY method of /api/v1/{proxy+} forwards to the
\* API unit behind the Cognito authorizer and the ANY method of
\* /webhook/v1/{proxy+} forwards to the webhook unit without authorization;
\* a request on the webhook tree invokes the webhook unit and nothing else,
\* whatever its token, and a request on the API tree never invokes any unit
\* but the API unit, which it invokes when its method is not OPTIONS and its
\* token is valid.
C8_TwoRouteTrees ==
    /\ Deployed =>
          /\ {r \in Paths(resources) : Len(r) = 1} = {<<"api">>, <<"webhook">>}
          /\ ProxyResources = {ApiProxy, WebhookProxy}
          /\ \A m \in methods : m.path \in ProxyResources
          /\ {m \in MethodsOn(ApiProxy) : m.httpMethod # "OPTIONS"} =
                {Method(ApiProxy, "ANY", LambdaIntegration(ApiUnit),
                        "COGNITO", {})}
          /\ MethodsOn(WebhookProxy) =
                {Method(WebhookProxy, "ANY", LambdaIntegration(WebhookUnit),
                        "NONE", {})}
    /\ OnWebhookTree => last.invoked = {WebhookUnit}
    /\ OnApiTree =>
          /\ last.invoked \subseteq {ApiUnit}
          /\ last.req.httpMethod # "OPTIONS" =>
                (last.invoked = {ApiUnit} <=> last.req.token = "valid")

C8_Witness ==
    /\ OnWebhookTree
    /\ last.req.token = "none"
    /\ last.req.httpMethod = "POST"
    /\ last.invoked = {WebhookUnit}

\* a foreign request for a path that is already registered ends composition
\* with a collision error and leaves the registered resources as they were
RejectsDuplicate ==
    \A path \in ForeignPaths :
        path \in Paths(resources) /\ ForeignRegister(path) =>
            /\ error'.kind = "collision"
            /\ error'.path = path
            /\ resources' = resources

\* C9: a request for a route at a path that is already registered on the
\* RestApi fails composition with a collision error and changes no
\* registered resource; no path is ever registered twice; the AppBackend's
\* own registrations never collide with each other: whenever an AppBackend
\* registration collides, the path is one another component registered.
C9_Collision ==
    /\ [][RejectsDuplicate]_vars
    /\ [](\A r1, r2 \in resources : r1[1] = r2[1] => r1 = r2)
    /\ [](error.kind = "collision" /\ error.by = "AppBackend" =>
              <<error.path, "other">> \in resources)
    /\ [](Deployed =>
              {WebhookProxy, ApiProxy} \subseteq
                  {r[1] : r \in {x \in resources : x[2] = "AppBackend"}})

C9_Witness ==
    /\ error.kind = "collision"
    /\ error.by = "other"
    /\ error.path = ApiProxy
    /\ <<ApiProxy, "AppBackend">> \in resources

\* C10: the Slack notifier's rule on the shared bus filters on the source
\* name alone: an event put on the bus invokes the notifier unit exactly when
\* its source equals eventBusSourceName, whatever its detail type.
C10_SourceFilter ==
    /\ Deployed =>
          /\ rules[SlackRuleName].eventBus = EventBusArn
          /\ rules[SlackRuleName].eventPattern.source =
                 {props.eventBusSourceName}
    /\ last.kind = "event" /\ last.req.bus = EventBusArn =>
          (SlackUnit \in last.invoked <=>
               last.req.source = props.eventBusSourceName)

C10_Witness ==
    /\ last.kind = "event"
    /\ last.req.bus = EventBusArn
    /\ last.req.source = props.eventBusSourceName
    /\ last.req.detailType = "grant.failed"
    /\ last.invoked = {SlackUnit}

LeafResources == {"Database", "WebUserPool", "EventBus", "PaginationKMSKey"}
DependentUnits == {"AccessHandler", "Governance", "TargetGroupGranter"}
BackendEntered == props.set

\* C13 as claimed: all four leaf resources (table, identity pool, event
\* channel, KMS key) are built before any dependent unit (access handler,
\* governance, granter); the three dependent units before the AppBackend;
\* the outputs after the AppBackend.
C13_AsClaimed ==
    /\ declared \cap DependentUnits # {} => LeafResources \subseteq declared
    /\ BackendEntered => DependentUnits \subseteq declared
    /\ "Outputs" \in declared => "API" \in declared

\* C13: the table, the identity pool and the event channel are built before
\* any dependent unit; the KMS key is built after the access handler and
\* before governance and the target-group granter; all three dependent units
\* are constructed before the AppBackend, and the outputs are generated after
\* the AppBackend is constructed.
C13_ConstructionOrder ==
    /\ declared \cap DependentUnits # {} =>
          {"Database", "WebUserPool", "EventBus"} \subseteq declared
    /\ "PaginationKMSKey" \in declared => "AccessHandler" \in declared
    /\ declared \cap {"Governance", "TargetGroupGranter"} # {} =>
          "PaginationKMSKey" \in declared
    /\ BackendEntered => DependentUnits \subseteq declared
    /\ "API" \in declared => BackendEntered
    /\ "Outputs" \in declared => "API" \in declared

C13_Witness ==
    /\ "AccessHandler" \in declared
    /\ "PaginationKMSKey" \notin declared
    /\ {"Database", "WebUserPool", "EventBus"} \subseteq declared

\* C15: at every step of composition the constructs the next statement reads
\* are already declared; a role holds statements, a unit has an environment,
\* a method integrates a unit and a rule targets a unit only once that unit
\* (and the RestApi, for a method) is declared; the outputs are generated
\* from constructs whose constructors have returned.
C15_DeclaredBeforeReferenced ==
    /\ error.kind = "none" => References(pc) \subseteq declared
    /\ \A u \in Units : policy[u] # <<>> \/ env[u] # {} => u \in declared
    /\ \A m \in methods :
          /\ "RestAPI" \in declared
          /\ m.integration.type = "AWS_PROXY" => m.integration.unit \in declared
    /\ \A n \in RuleNames : \A t \in rules[n].targets :
          n \in declared /\ t.unit \in declared
    /\ \A p \in lambdaPerms : p[1] \in declared /\ p[2] \in declared
    /\ "Outputs" \in declared =>
          {"API", "Notifiers", "CacheSync"} \subseteq declared

C15_Witness ==
    /\ pc = "S_Outputs"
    /\ error.kind = "none"
    /\ Cardinality(References(pc)) = 12
    /\ References(pc) \subseteq declared

HasWildcard(r) == \E i \in DOMAIN r : r[i] = "*"
IsAllResources(r) == r = <<"*">>
\* a resource that names a path and ends in a wildcard below it
IsPathPrefix(r) ==
    /\ Len(r) >= 2
    /\ r[Len(r)] = "*"
    /\ \A i \in 1..(Len(r) - 1) : r[i] # "*"
Statements(u) == {policy[u][i] : i \in DOMAIN policy[u]}
StatesActions ==
    {"states:StartExecution", "states:StopExecution",
     "states:DescribeExecution", "states:GetExecutionHistory"}
WildcardActions ==
    {"*", "states:*", "ssm:*", "lambda:*", "cognito-idp:*", "execute-api:*"}
IsStatesGrant(u, st) == u = ApiUnit /\ st.actions = StatesActions

\* C12 as claimed: no grant added in the AppBackend, CacheSync and Notifiers
\* constructs has a wildcard in its resource set, except the API unit's
\* state-machine control grant.
C12_AsClaimed ==
    \A u \in Units : \A st \in Statements(u) :
        (\E r \in st.resources : HasWildcard(r)) => IsStatesGrant(u, st)

\* C12: every statement the three constructors pass to addToRolePolicy names
\* exact action verbs; the only one whose resource set holds the unrestricted
\* wildcard is the API unit's state-machine control grant (its four states:
\* actions), whose resource set is exactly that wildcard; the
\* lambda:InvokeFunction and Cognito statements name exact identifiers; the
\* SSM statements name a parameter path and a wildcard below it, and the
\* execute-api statements name the access handler's API with a wildcard
\* stage, method and path.
C12_ScopedResources ==
    /\ \A u \in Units : \A st \in Statements(u) :
          st.via = "addToRolePolicy" =>
            /\ st.actions \cap WildcardActions = {}
            /\ (\E r \in st.resources : IsAllResources(r)) =>
                  IsStatesGrant(u, st) /\ st.resources = {<<"*">>}
            /\ \A r \in st.resources :
                  HasWildcard(r) /\ ~IsAllResources(r) =>
                     \/ /\ st.actions \subseteq
                             {"ssm:GetParameter", "ssm:PutParameter"}
                        /\ IsPathPrefix(r)
                        /\ SubSeq(r, 1, 2) = <<"arn:aws:ssm:parameter", "granted">>
                     \/ /\ st.actions = {"execute-api:Invoke"}
                        /\ r = AccessHandlerExecuteApiArn
    /\ Deployed =>
          \E st \in Statements(ApiUnit) :
              IsStatesGrant(ApiUnit, st) /\ st.resources = {<<"*">>}

C12_Witness ==
    /\ Deployed
    /\ \E st \in Statements(SlackUnit) :
          \E r \in st.resources : IsPathPrefix(r)
    /\ \E st \in Statements(ApiUnit) :
          IsStatesGrant(ApiUnit, st) /\ st.resources = {<<"*">>}

\* the pieces put together again with commas between them
RECURSIVE Join(_)
Join(pieces) ==
    IF pieces = <<>> THEN <<>>
    ELSE IF Len(pieces) = 1 THEN Head(pieces)
    ELSE Head(pieces) \o <<",">> \o Join(Tail(pieces))

\* the list holds what the string supplies: its pieces, none holding a comma
IsListOf(list, string) ==
    /\ list # <<>>
    /\ Join(list) = string
    /\ \A i \in DOMAIN list : \A j \in DOMAIN list[i] : list[i][j] # ","

BothSupplied ==
    stackProps.subnetIds # <<>> /\ stackProps.securityGroups # <<>>

\* C14: a conditional resource whose enabling input is empty is absent and
\* composition goes on without error: vpcConfig holds the supplied subnet and
\* security-group lists only when subnetIds and securityGroups are both
\* non-empty and two empty lists when either is empty, and the same value
\* reaches AppBackend and the constructs it builds; no firewall association
\* exists when apiGatewayWafAclArn is empty, and no lambda:InvokeFunction grant
\* when autoApprovalLambdaARN is empty.
C14_DegradesToAbsent ==
    /\ CompositionProceeds
    /\ vpcConfig.set =>
          IF BothSupplied
          THEN /\ IsListOf(vpcConfig.subnetIds, stackProps.subnetIds)
               /\ IsListOf(vpcConfig.securityGroupIds, stackProps.securityGroups)
          ELSE vpcConfig.subnetIds = <<>> /\ vpcConfig.securityGroupIds = <<>>
    /\ props.set => props.vpcConfig = vpcConfig /\ vpcConfig.set
    /\ \A c \in Components :
          handed[c].set => handed[c].vpcConfig = vpcConfig /\ vpcConfig.set
    /\ stackProps.apiGatewayWafAclArn = "" =>
          associations = <<>> /\ conditions = <<>>
    /\ stackProps.autoApprovalLambdaARN = "" => InvokeGrants = {}

C14_Witness ==
    /\ Deployed
    /\ stackProps.subnetIds # <<>>
    /\ stackProps.securityGroups = <<>>
    /\ vpcConfig.subnetIds = <<>>
    /\ handed["CacheSync"].vpcConfig.securityGroupIds = <<>>
    /\ stackProps.apiGatewayWafAclArn = ""
    /\ stackProps.autoApprovalLambdaARN = ""
    /\ associations = <<>>

\* the Props a construct was constructed with
Received(c) == IF c = "API" THEN props ELSE handed[c]
EventReceivers ==
    {"AccessHandler", "TargetGroupGranter", "API", "EventHandler", "Notifiers"}
TableReceivers ==
    {"Governance", "TargetGroupGranter", "API", "EventHandler", "Notifiers",
     "IdpSync", "CacheSync", "HealthCheck"}
EnvValues(u, name) == {e[2] : e \in {x \in env[u] : x[1] = name}}

\* C16: the event bus and the source name handed to AccessHandler,
\* TargetGroupGranter, AppBackend, EventHandler and Notifiers are equal to one
\* another and are the bus and tag of the one EventBus construct; every
\* construct that is handed a table is handed the one table of Database; the
\* API unit's COMMONFATE_EVENT_BUS_SOURCE is the source the notifier rule
\* filters on, the rule listens on that bus, and every unit's
\* COMMONFATE_TABLE_NAME is the name of that table.
C16_OneBusOneTable ==
    /\ \A c \in EventReceivers : Received(c).set =>
          /\ {"eventBus", "eventBusSourceName"} \subseteq DOMAIN Received(c)
          /\ Received(c).eventBus = getEventBus
          /\ Received(c).eventBusSourceName = sourceName
          /\ "EventBus" \in declared
          /\ \A d \in EventReceivers : Received(d).set =>
                /\ Received(d).eventBus = Received(c).eventBus
                /\ Received(d).eventBusSourceName =
                      Received(c).eventBusSourceName
    /\ \A c \in TableReceivers : Received(c).set =>
          /\ "dynamoTable" \in DOMAIN Received(c)
          /\ Received(c).dynamoTable = getTable
          /\ "Database" \in declared
    /\ rules[SlackRuleName].exists =>
          /\ rules[SlackRuleName].eventBus = getEventBus.eventBusArn
          /\ rules[SlackRuleName].eventPattern.source = {sourceName}
          /\ EnvValues(ApiUnit, "COMMONFATE_EVENT_BUS_SOURCE") = {sourceName}
          /\ EnvValues(ApiUnit, "COMMONFATE_EVENT_BUS_ARN") =
                {rules[SlackRuleName].eventBus}
    /\ \A u \in Units : u \in declared =>
          EnvValues(u, "COMMONFATE_TABLE_NAME") = {getTable.tableName}

C16_Witness ==
    /\ Deployed
    /\ \A c \in EventReceivers \cup TableReceivers : Received(c).set
    /\ sourceName = "aws.partner/other"
    /\ handed["Notifiers"].eventBusSourceName =
          handed["AccessHandler"].eventBusSourceName
    /\ rules[SlackRuleName].eventPattern.source =
          EnvValues(ApiUnit, "COMMONFATE_EVENT_BUS_SOURCE")
    /\ \A u \in Units : EnvValues(u, "COMMONFATE_TABLE_NAME") = {TableName}

\* a step that makes one more invocation attempt for the same event
Attempt == delivery'.attempts = delivery.attempts + 1
\* a step that turns to another occurrence: no attempt made for it yet
NewEvent == delivery'.attempts = 0

DeliveryBounded ==
    /\ delivery.state # "idle" =>
          /\ delivery.unit = SlackUnit
          /\ delivery.retryAttempts = {2}
          /\ Deployed
    /\ delivery.attempts <= 3
    /\ delivery.state = "pending" => delivery.attempts <= 2
    /\ delivery.state = "failed" => delivery.attempts = 3
    /\ error.kind = "none"

DeliverySteps ==
    /\ Attempt => delivery.state = "pending"
    /\ Attempt /\ delivery'.state = "pending" => delivery'.attempts <= 2
    /\ Attempt /\ delivery.attempts = 2 =>
          delivery'.state \in {"delivered", "failed"}
    /\ delivery.state \in {"failed", "delivered"} =>
          delivery' = delivery \/ NewEvent
    /\ error'.kind = "none" /\ pc' = pc

\* C11: an event the notifier rule matches is delivered to the notifier unit
\* in at most three invocation attempts, the first and at most two retries,
\* each retry following a failed attempt; when the third attempt fails the
\* delivery has failed and no further attempt is made for that event; no
\* attempt changes the composed stack or raises a composition error.
C11_BoundedRetries ==
    /\ [](DeliveryBounded)
    /\ [][delivery.state # "idle" => DeliverySteps]_vars

C11_Witness ==
    /\ delivery.state = "failed"
    /\ delivery.attempts = 3
    /\ delivery.unit = SlackUnit
    /\ last.kind = "event" /\ last.status = "matched"
    /\ Deployed

====
